---- MODULE Spec2Model ----
(***************************************************************************)
(* A model of ctx-aggregator: collectors registered into a context chain   *)
(* (common.go, base_aggregator.go, concurrent.go, streaming.go) and the    *)
(* goroutines that call Collect, Aggregate, WaitFunc and the completion    *)
(* functions WaitFunc returns.                                             *)
(*                                                                         *)
(* A method body is a sequence of instructions (lock, load, store, ...);   *)
(* a goroutine executes one instruction per step, so every interleaving    *)
(* the Go scheduler can produce between two synchronisation points is a    *)
(* behaviour of the model.  sync.Mutex and sync.WaitGroup are modelled by  *)
(* their documented contract: Lock blocks while the mutex is held; Add     *)
(* changes the counter, panics when it goes negative and releases every    *)
(* goroutine blocked in Wait when it reaches zero; Wait returns at once    *)
(* on a zero counter and blocks otherwise.  An unrecovered panic ends the  *)
(* whole program (fault).                                                  *)
(* The runtime's best-effort detection of WaitGroup misuse ("reused before *)
(* previous Wait has returned") is not part of that contract and is left   *)
(* out.                                                                    *)
(***************************************************************************)
EXTENDS Integers, Sequences, FiniteSets, TLC

\* ------------------------------------------------------------------ bounds
NThreads == 2
MaxCollect == 2
MaxAggregate == 1
MaxWaitFunc == 1
MaxRegister == 2
MaxCapacity == 2

Threads == 1..NThreads

\* --------------------------------------------------------------- constants
contextAggregatorContextKey == "ctxAggCtxKey"
ErrNotFoundAggregator == "not found aggregator"
ErrInvalidType == "invalid type of aggregator"
NoErr == "nil"

Kinds == {"base", "streaming", "concurrent", "concurrentStreaming"}
ConcurrentKinds == {"concurrent", "concurrentStreaming"}
Types == {"int", "int32"}
KeySeqs == {<< >>, <<"k">>}
\* a callback handed to a streaming Register: one that returns, one that
\* panics on every call, or nil
Callbacks == {"ok", "panic", "nil"}
\* a callback that itself calls Collect, or Aggregate, on the collector it is
\* registered with
ReentrantCallbacks == {"collect", "aggregate"}
\* disambiguator sequences that differ in order, in length and in where the
\* separator stands
KeyProbes ==
  {<< >>, <<"key1">>, <<"key1", "key2">>, <<"key2", "key1">>, <<"key1_key2">>}

VARIABLES
  ctxs,    \* the context values created so far; a context is its chain of bindings
  aggs,    \* the collector objects allocated by the Register functions
  fns,     \* the completion functions returned by WaitFunc
  pc,      \* per goroutine: the call in progress and its position
  ret,     \* what the step just taken returned to its caller, when it ended a call
  fault,   \* an unrecovered panic has ended the program
  hist,    \* per collector: the items whose Collect has started / has returned
  n,       \* calls made so far, per operation
  env      \* what the callers draw their arguments from, and how many calls they make

vars == <<ctxs, aggs, fns, pc, ret, fault, hist, n, env>>

\* ------------------------------------------------------------------ slices
\* a slice value: whether it is nil, its elements, and the capacity of the
\* array behind it
NilSlice == [nil |-> TRUE, elems |-> << >>, cap |-> 0]
\* make([]T, 0)
MakeSlice == [nil |-> FALSE, elems |-> << >>, cap |-> 0]
\* make([]T, 0, capacity): a run-time panic (makeslice: cap out of range) for
\* a negative capacity
MakeFaults(capacity) == capacity < 0
MakeSliceCapMutNil(capacity) == NilSlice
MakeSliceCap(capacity) == [nil |-> FALSE, elems |-> << >>, cap |-> capacity]
Range(s) == {s[i] : i \in DOMAIN s}
Count(s, x) == Cardinality({i \in DOMAIN s : s[i] = x})

\* the capacity append gives a full slice: the runtime at least doubles a
\* small one (its rounding up to an allocation size class is left out)
Grow(capacity) == IF capacity = 0 THEN 1 ELSE 2 * capacity
Fits(s) == Len(s.elems) < s.cap

\* append(a.datas, data): the slice read earlier, with data added at its end
AppendMutFront(s, x) ==
  [nil |-> FALSE, elems |-> <<x>> \o s.elems,
   cap |-> IF Fits(s) THEN s.cap ELSE Grow(s.cap)]
AppendMutOverwrite(s, x) ==
  [nil |-> FALSE,
   elems |-> IF s.elems = << >> THEN <<x>>
             ELSE [s.elems EXCEPT ![Len(s.elems)] = x],
   cap |-> IF s.elems = << >> /\ ~Fits(s) THEN Grow(s.cap) ELSE s.cap]
GoAppend(s, x) ==
  [nil |-> FALSE, elems |-> Append(s.elems, x),
   cap |-> IF Fits(s) THEN s.cap ELSE Grow(s.cap)]

\* ---------------------------------------------------------------- registry
RECURSIVE Join(_, _)
Join(strs, sep) ==
  IF Len(strs) = 0 THEN ""
  ELSE IF Len(strs) = 1 THEN strs[1]
  ELSE strs[1] \o sep \o Join(Tail(strs), sep)

buildContextKeyMutNoNamespace(keys) == Join(keys, "_")
buildContextKeyMutIgnoreKeys(keys) == contextAggregatorContextKey
buildContextKey(keys) ==
  IF Len(keys) = 0 THEN contextAggregatorContextKey
  ELSE Join(<<contextAggregatorContextKey>> \o keys, "_")

RECURSIVE ValueMutOldest(_, _)
ValueMutOldest(ctx, key) ==
  IF Len(ctx) = 0 THEN 0
  ELSE IF ctx[1].key = key THEN ctx[1].agg
  ELSE ValueMutOldest(Tail(ctx), key)

\* ctx.Value(key): the collector of the most recent binding of key, 0 for nil
RECURSIVE Value(_, _)
Value(ctx, key) ==
  IF Len(ctx) = 0 THEN 0
  ELSE IF ctx[Len(ctx)].key = key THEN ctx[Len(ctx)].agg
  ELSE Value(SubSeq(ctx, 1, Len(ctx) - 1), key)

WithValue(ctx, key, a) == Append(ctx, [key |-> key, agg |-> a])

extractAggregatorMutNoTypeCheck(ctx, keys, T) ==
  LET a == Value(ctx, buildContextKey(keys))
  IN  IF a = 0 THEN [agg |-> 0, err |-> ErrNotFoundAggregator]
      ELSE [agg |-> a, err |-> NoErr]
extractAggregatorMutNilPasses(ctx, keys, T) ==
  LET a == Value(ctx, buildContextKey(keys))
  IN  IF a = 0 THEN [agg |-> 0, err |-> ErrInvalidType]
      ELSE IF aggs[a].typ # T THEN [agg |-> 0, err |-> ErrInvalidType]
      ELSE [agg |-> a, err |-> NoErr]
extractAggregatorMutFallsThrough(ctx, keys, T) ==
  LET key == buildContextKey(keys)
      any == {i \in DOMAIN ctx : ctx[i].key = key}
      fit == {i \in any : aggs[ctx[i].agg].typ = T}
  IN  IF any = {} THEN [agg |-> 0, err |-> ErrNotFoundAggregator]
      ELSE IF fit = {} THEN [agg |-> 0, err |-> ErrInvalidType]
      ELSE [agg |-> ctx[CHOOSE i \in fit : \A j \in fit : j <= i].agg, err |-> NoErr]
extractAggregator(ctx, keys, T) ==
  LET a == Value(ctx, buildContextKey(keys))
  IN  IF a = 0 THEN [agg |-> 0, err |-> ErrNotFoundAggregator]
      ELSE IF aggs[a].typ # T THEN [agg |-> 0, err |-> ErrInvalidType]
      ELSE [agg |-> a, err |-> NoErr]

NewAgg(kind, T, cb) ==
  [kind |-> kind, typ |-> T, datas |-> MakeSlice, m |-> 0, wg |-> 0,
   callback |-> IF kind \in {"streaming", "concurrentStreaming"} THEN cb ELSE "nil",
   cbs |-> << >>]

\* ------------------------------------------------------------ method bodies
CollectBodyMutNoLock(kind) ==
  IF kind = "base" THEN <<"load", "store">>
  ELSE IF kind = "streaming" THEN <<"callback", "load", "store">>
  ELSE IF kind = "concurrent" THEN <<"load", "store">>
  ELSE <<"callback", "load", "store">>
CollectBodyMutWaits(kind) ==
  IF kind = "base" THEN <<"load", "store">>
  ELSE IF kind = "streaming" THEN <<"callback", "load", "store">>
  ELSE IF kind = "concurrent" THEN <<"wait", "lock", "load", "store", "unlock">>
  ELSE <<"wait", "lock", "callback", "load", "store", "unlock">>
CollectBodyMutNoCallback(kind) ==
  IF kind \in {"base", "streaming"} THEN <<"load", "store">>
  ELSE <<"lock", "load", "store", "unlock">>
CollectBodyMutNoUnlock(kind) ==
  IF kind = "base" THEN <<"load", "store">>
  ELSE IF kind = "streaming" THEN <<"callback", "load", "store">>
  ELSE IF kind = "concurrent" THEN <<"lock", "load", "store">>
  ELSE <<"lock", "callback", "load", "store">>
CollectBodyMutAppendFirst(kind) ==
  IF kind = "base" THEN <<"load", "store">>
  ELSE IF kind = "streaming" THEN <<"load", "store", "callback">>
  ELSE IF kind = "concurrent" THEN <<"lock", "load", "store", "unlock">>
  ELSE <<"lock", "load", "store", "callback", "unlock">>
CollectBody(kind) ==
  IF kind = "base" THEN <<"load", "store">>
  ELSE IF kind = "streaming" THEN <<"callback", "load", "store">>
  ELSE IF kind = "concurrent" THEN <<"lock", "load", "store", "unlock">>
  ELSE <<"lock", "callback", "load", "store", "unlock">>

AggregateBodyMutLockFirst(kind) ==
  IF kind \in ConcurrentKinds THEN <<"lock", "wait", "read", "unlock">>
  ELSE <<"read">>
AggregateBodyMutNoWait(kind) ==
  IF kind \in ConcurrentKinds THEN <<"lock", "read", "unlock">>
  ELSE <<"read">>
AggregateBodyMutWaitsAgain(kind) ==
  IF kind \in ConcurrentKinds THEN <<"wait", "lock", "wait", "read", "unlock">>
  ELSE <<"read">>
AggregateBody(kind) ==
  IF kind \in ConcurrentKinds THEN <<"wait", "lock", "read", "unlock">>
  ELSE <<"read">>

\* ----------------------------------------------------------- derived views
\* predicates and map functions a caller may pass (items are integers)
Filters == {"all", "none", "odd"}
Transforms == {"double", "negate"}
Holds(filter, v) ==
  IF filter = "all" THEN TRUE
  ELSE IF filter = "none" THEN FALSE
  ELSE v % 2 = 1
Apply(transform, v) == IF transform = "double" THEN 2 * v ELSE 0 - v

\* filtered := make([]T, 0, len(allItems)); for _, item := range allItems { ... }
RECURSIVE FilterLoop(_, _, _, _)
FilterLoop(allItems, filter, i, filtered) ==
  IF i > Len(allItems.elems) THEN filtered
  ELSE FilterLoop(allItems, filter, i + 1,
                  IF Holds(filter, allItems.elems[i])
                  THEN GoAppend(filtered, allItems.elems[i])
                  ELSE filtered)
AggregateWithFilterMutSkipsFirst(allItems, filter) ==
  FilterLoop(allItems, filter, 2, MakeSliceCap(Len(allItems.elems)))
AggregateWithFilter(allItems, filter) ==
  FilterLoop(allItems, filter, 1, MakeSliceCap(Len(allItems.elems)))

RECURSIVE TransformLoop(_, _, _, _)
TransformLoop(allItems, transform, i, transformed) ==
  IF i > Len(allItems.elems) THEN transformed
  ELSE TransformLoop(allItems, transform, i + 1,
                     GoAppend(transformed, Apply(transform, allItems.elems[i])))
AggregateWithTransformMutDropsLast(allItems, transform) ==
  TransformLoop([allItems EXCEPT !.elems = SubSeq(@, 1, Len(@) - 1)], transform, 1,
                MakeSliceCap(Len(allItems.elems)))
AggregateWithTransform(allItems, transform) ==
  TransformLoop(allItems, transform, 1, MakeSliceCap(Len(allItems.elems)))

RECURSIVE FilterAndTransformLoop(_, _, _, _, _)
FilterAndTransformLoop(allItems, filter, transform, i, result) ==
  IF i > Len(allItems.elems) THEN result
  ELSE FilterAndTransformLoop(allItems, filter, transform, i + 1,
                              IF Holds(filter, allItems.elems[i])
                              THEN GoAppend(result, Apply(transform, allItems.elems[i]))
                              ELSE result)
AggregateWithFilterAndTransformMutFilterAfter(allItems, filter, transform) ==
  AggregateWithFilter(AggregateWithTransform(allItems, transform), filter)
AggregateWithFilterAndTransform(allItems, filter, transform) ==
  FilterAndTransformLoop(allItems, filter, transform, 1, MakeSliceCap(Len(allItems.elems)))

\* which operator a call is, and the functions it was given
View(op, filter, transform) == [op |-> op, filter |-> filter, transform |-> transform]
Plain == View("Aggregate", "", "")
Views ==
  {Plain}
    \cup {View("AggregateWithFilter", f, "") : f \in Filters}
    \cup {View("AggregateWithTransform", "", g) : g \in Transforms}
    \cup {View("AggregateWithFilterAndTransform", f, g) : f \in Filters, g \in Transforms}
\* what the operator makes of allItems := agg.Aggregate()
ViewOf(view, allItems) ==
  IF view.op = "AggregateWithFilter" THEN AggregateWithFilter(allItems, view.filter)
  ELSE IF view.op = "AggregateWithTransform"
       THEN AggregateWithTransform(allItems, view.transform)
  ELSE IF view.op = "AggregateWithFilterAndTransform"
       THEN AggregateWithFilterAndTransform(allItems, view.filter, view.transform)
  ELSE allItems

\* ------------------------------------------------------------------ frames
Idle ==
  [op |-> "idle", x |-> 0, keys |-> << >>, typ |-> "", agg |-> 0, item |-> 0,
   i |-> 0, blocked |-> FALSE, fn |-> 0, val |-> NilSlice, nfns |-> 0,
   view |-> Plain, outer |-> 0]
NoRet ==
  [op |-> "none", t |-> 0, x |-> 0, keys |-> << >>, typ |-> "", agg |-> 0, item |-> 0,
   err |-> NoErr, val |-> NilSlice, nfns |-> 0, view |-> Plain, raw |-> NilSlice]

\* a derived view runs its loop over allItems after agg.Aggregate() returned
Body(fr) ==
  IF fr.op = "Collect" THEN CollectBody(aggs[fr.agg].kind)
  ELSE IF fr.view = Plain THEN AggregateBody(aggs[fr.agg].kind)
  ELSE AggregateBody(aggs[fr.agg].kind) \o <<"eval">>

\* what is remembered of a collector's calls: the items whose Collect has
\* started and has returned, the keys it was registered under, and what the
\* latest a.datas read by an Aggregate saw
NoneSeen ==
  [any |-> FALSE, raw |-> NilSlice, started |-> {}, quiet |-> FALSE, again |-> FALSE]
NoHist(keys) == [started |-> {}, returned |-> {}, keys |-> keys, seen |-> NoneSeen]

Running(t) == pc[t].op \in {"Collect", "Aggregate"}
Instr(t) == IF Running(t) /\ ~pc[t].blocked THEN Body(pc[t])[pc[t].i] ELSE "none"
Last(fr) == fr.i = Len(Body(fr))

\* the goroutine's frame once the call in fr has returned: the deferred
\* completion function of the task, when it has one, is what runs next
\* where a call made from inside a callback returns to: the Collect whose
\* callback made it (fr.outer is that Collect's item), just after the callback
Resumed(fr) ==
  LET body == CollectBody(aggs[fr.agg].kind)
  IN  [fr EXCEPT !.op = "Collect", !.item = fr.outer, !.outer = 0, !.val = NilSlice,
                 !.i = 1 + CHOOSE i \in DOMAIN body : body[i] = "callback"]
Returned(fr) ==
  IF fr.outer # 0 THEN Resumed(fr)
  ELSE IF fr.fn # 0
  THEN [Idle EXCEPT !.op = "Deferred", !.fn = fr.fn]
  ELSE Idle
After(fr) == IF Last(fr) THEN Returned(fr) ELSE [fr EXCEPT !.i = @ + 1]

Result(t, fr, err) ==
  [op |-> fr.op, t |-> t, x |-> fr.x, keys |-> fr.keys, typ |-> fr.typ,
   agg |-> fr.agg, item |-> fr.item, err |-> err,
   val |-> IF fr.op = "Aggregate" /\ err = NoErr THEN ViewOf(fr.view, fr.val)
           ELSE NilSlice,
   nfns |-> fr.nfns, view |-> fr.view,
   raw |-> IF fr.op = "Aggregate" /\ err = NoErr THEN fr.val ELSE NilSlice]

RetAfter(t, fr) == IF Last(fr) THEN Result(t, fr, NoErr) ELSE NoRet
HistAfter(fr) ==
  IF Last(fr) /\ fr.op = "Collect"
  THEN [hist EXCEPT ![fr.agg].returned = @ \cup {fr.item}]
  ELSE hist

\* a sequential collector is, by its documented precondition, used by one
\* goroutine at a time
Sequential(a) == aggs[a].kind \notin ConcurrentKinds
FreeFor(t, a) ==
  Sequential(a) => \A u \in Threads \ {t} : ~(Running(u) /\ pc[u].agg = a)

\* -------------------------------------------------------------------- Init
Limits(c, a, w, r) ==
  [collect |-> c, aggregate |-> a, waitfunc |-> w, register |-> r]
NoCalls == Limits(0, 0, 0, 0)

\* the context chain right after ctx = Register<kind>[int](context.Background())
InitRegistered(kind, cb) ==
  /\ aggs = <<NewAgg(kind, "int", cb)>>
  /\ ctxs = <<WithValue(<< >>, buildContextKey(<< >>), 1)>>
  /\ hist = <<NoHist(<< >>)>>
  /\ fns = << >>
  /\ pc = [t \in Threads |-> Idle]
  /\ ret = NoRet
  /\ fault = FALSE
  /\ n = NoCalls

Init ==
  /\ \E kind \in Kinds : InitRegistered(kind, "ok")
  /\ env = [kinds |-> Kinds, keys |-> {<< >>}, types |-> {"int"}, track |-> FALSE, once |-> FALSE,
            par |-> NThreads,
            lim |-> Limits(MaxCollect, MaxAggregate, MaxWaitFunc, 0)]

\* ----------------------------------------------------------------- actions
Frame(op, x, keys, T, a, item, f) ==
  [Idle EXCEPT !.op = op, !.x = x, !.keys = keys, !.typ = T, !.agg = a,
               !.item = item, !.i = 1, !.fn = f]

\* goroutines are interchangeable: a new call is made by the first one that is
\* free, while fewer than env.par goroutines are busy
FirstFree(t) ==
  /\ pc[t].op = "idle"
  /\ \A u \in Threads : u < t => pc[u].op # "idle"
  /\ Cardinality({u \in Threads : pc[u].op # "idle"}) < env.par

\* a completion function a task may defer: none, or one WaitFunc returned
MayDefer(f) ==
  \/ f = 0
  \/ f \in DOMAIN fns /\ (env.once => fns[f].tasks = 0)

CollectCallMutStoresOnMismatch(t, x, keys, T, f) ==
  /\ ~fault
  /\ FirstFree(t)
  /\ n.collect < env.lim.collect
  /\ MayDefer(f)
  /\ LET r == extractAggregator(ctxs[x], keys, T)
         b == Value(ctxs[x], buildContextKey(keys))
         item == n.collect + 1
         fr == Frame("Collect", x, keys, T, r.agg, item, f)
     IN  /\ IF r.err # NoErr
            THEN /\ pc' = [pc EXCEPT ![t] = Returned(fr)]
                 /\ ret' = Result(t, fr, r.err)
                 /\ hist' = hist
                 /\ aggs' = IF b = 0 THEN aggs
                            ELSE [aggs EXCEPT ![b].datas = GoAppend(@, item)]
            ELSE /\ FreeFor(t, r.agg)
                 /\ pc' = [pc EXCEPT ![t] = fr]
                 /\ ret' = NoRet
                 /\ hist' = [hist EXCEPT ![r.agg].started = @ \cup {item}]
                 /\ aggs' = aggs
         /\ fns' = IF f = 0 THEN fns
                   ELSE [fns EXCEPT ![f].tasks = @ + 1,
                                    ![f].items = IF r.err = NoErr THEN @ \cup {item} ELSE @]
         /\ n' = IF r.err # NoErr /\ f = 0 THEN n ELSE [n EXCEPT !.collect = @ + 1]
  /\ UNCHANGED <<ctxs, fault, env>>

\* go func() { defer fn(); Collect[T](ctx, item, keys...) }(), with or without the defer
CollectCall(t, x, keys, T, f) ==
  /\ ~fault
  /\ FirstFree(t)
  /\ n.collect < env.lim.collect
  /\ MayDefer(f)
  /\ LET r == extractAggregator(ctxs[x], keys, T)
         item == n.collect + 1
         fr == Frame("Collect", x, keys, T, r.agg, item, f)
     IN  /\ IF r.err # NoErr
            THEN /\ pc' = [pc EXCEPT ![t] = Returned(fr)]
                 /\ ret' = Result(t, fr, r.err)
                 /\ hist' = hist
            ELSE /\ FreeFor(t, r.agg)
                 /\ pc' = [pc EXCEPT ![t] = fr]
                 /\ ret' = NoRet
                 /\ hist' = [hist EXCEPT ![r.agg].started = @ \cup {item}]
         /\ fns' = IF f = 0 THEN fns
                   ELSE [fns EXCEPT ![f].tasks = @ + 1,
                                    ![f].items = IF r.err = NoErr THEN @ \cup {item} ELSE @]
         /\ n' = IF r.err # NoErr /\ f = 0 THEN n ELSE [n EXCEPT !.collect = @ + 1]
  /\ UNCHANGED <<ctxs, aggs, fault, env>>

FnsOf(a) == {f \in DOMAIN fns : fns[f].agg = a}

\* Aggregate[T](ctx, keys...) and the operators built on it: resolve the
\* collector, allItems := agg.Aggregate(), then filter and transform allItems
\* into a slice of the call's own
AggregateVia(t, x, keys, T, view) ==
  /\ ~fault
  /\ FirstFree(t)
  /\ n.aggregate < env.lim.aggregate
  /\ LET r == extractAggregator(ctxs[x], keys, T)
         fr == [Frame("Aggregate", x, keys, T, r.agg, 0, 0) EXCEPT !.view = view]
     IN  /\ IF r.err # NoErr
            THEN /\ ret' = Result(t, fr, r.err)
                 /\ pc' = pc
            ELSE /\ FreeFor(t, r.agg)
                 /\ pc' = [pc EXCEPT ![t] = [fr EXCEPT !.nfns = Len(fns)]]
                 /\ ret' = NoRet
         /\ n' = IF r.err # NoErr THEN n ELSE [n EXCEPT !.aggregate = @ + 1]
  /\ UNCHANGED <<ctxs, aggs, fns, fault, hist, env>>

\* Aggregate[T](ctx, keys...)
AggregateCall(t, x, keys, T) == AggregateVia(t, x, keys, T, Plain)

\* the goroutine's call moves past the instruction it has just executed
Advance(t) ==
  /\ pc' = [pc EXCEPT ![t] = After(pc[t])]
  /\ ret' = RetAfter(t, pc[t])
  /\ hist' = HistAfter(pc[t])

\* a.m.Lock()
LockMutReentrant(t) ==
  /\ ~fault
  /\ Instr(t) = "lock"
  /\ aggs[pc[t].agg].m \in {0, t}
  /\ aggs' = [aggs EXCEPT ![pc[t].agg].m = t]
  /\ Advance(t)
  /\ UNCHANGED <<ctxs, fns, fault, n, env>>
Lock(t) ==
  /\ ~fault
  /\ Instr(t) = "lock"
  /\ aggs[pc[t].agg].m = 0
  /\ aggs' = [aggs EXCEPT ![pc[t].agg].m = t]
  /\ Advance(t)
  /\ UNCHANGED <<ctxs, fns, fault, n, env>>

\* defer a.m.Unlock(), run as the method returns
Unlock(t) ==
  /\ ~fault
  /\ Instr(t) = "unlock"
  /\ aggs' = [aggs EXCEPT ![pc[t].agg].m = 0]
  /\ Advance(t)
  /\ UNCHANGED <<ctxs, fns, fault, n, env>>

\* whether a panic of callback cb leaves the closure it is called in:
\* defer func() { if r := recover(); r != nil {} }() stops every panic
PanicEscapesMutNoRecover(cb) == cb = "panic"
PanicEscapes(cb) == FALSE

\* if a.callback != nil { func() { defer ...recover()...; a.callback(data) }() }:
\* the callback is called with the item; a panic that left the closure would
\* end the program
Callback(t) ==
  /\ ~fault
  /\ Instr(t) = "callback"
  /\ aggs[pc[t].agg].callback \notin ReentrantCallbacks
  /\ aggs' = IF aggs[pc[t].agg].callback = "nil" THEN aggs
             ELSE [aggs EXCEPT ![pc[t].agg].cbs = Append(@, pc[t].item)]
  /\ IF PanicEscapes(aggs[pc[t].agg].callback)
     THEN /\ fault' = TRUE
          /\ ret' = NoRet
          /\ UNCHANGED <<pc, hist>>
     ELSE /\ fault' = fault
          /\ Advance(t)
  /\ UNCHANGED <<ctxs, fns, n, env>>

\* a.callback(data) where the callback calls Collect or Aggregate with the
\* context and keys of the call it runs in: the goroutine enters that call
\* before the Collect it is in has gone on
Reenter(t) ==
  /\ ~fault
  /\ Instr(t) = "callback"
  /\ aggs[pc[t].agg].callback \in ReentrantCallbacks
  /\ LET a == pc[t].agg
         inner == IF aggs[a].callback = "collect" THEN "Collect" ELSE "Aggregate"
         item == IF inner = "Collect" THEN n.collect + 1 ELSE 0
     IN  /\ aggs' = [aggs EXCEPT ![a].cbs = Append(@, pc[t].item)]
         /\ pc' = [pc EXCEPT ![t] = [pc[t] EXCEPT !.op = inner, !.item = item, !.i = 1,
                                                  !.outer = pc[t].item,
                                                  !.nfns = Len(fns)]]
         /\ hist' = IF inner = "Collect"
                    THEN [hist EXCEPT ![a].started = @ \cup {item}]
                    ELSE hist
         /\ n' = IF inner = "Collect" THEN [n EXCEPT !.collect = @ + 1]
                 ELSE [n EXCEPT !.aggregate = @ + 1]
  /\ ret' = NoRet
  /\ UNCHANGED <<ctxs, fns, fault, env>>

\* the read of a.datas in a.datas = append(a.datas, data)
Load(t) ==
  /\ ~fault
  /\ Instr(t) = "load"
  /\ pc' = [pc EXCEPT ![t] = [After(pc[t]) EXCEPT !.val = aggs[pc[t].agg].datas]]
  /\ ret' = NoRet
  /\ UNCHANGED <<ctxs, aggs, fns, fault, hist, n, env>>

\* Aggregate returns a.datas itself: the slice its caller holds
\* (hist[a].seen.raw) has the array of a.datas behind it until one of the two
\* is moved to a larger array by an append.  The arrays of one collector have
\* capacities that grow with every move, so the two slices have the same
\* array behind them exactly when their capacities are equal.
Held(a) == hist[a].seen.raw
Aliased(a) == hist[a].seen.any /\ Held(a).cap = aggs[a].datas.cap /\ Held(a).cap > 0

\* append(s, x) on collector a that finds room writes the element after
\* len(s) of the array, which a slice the caller holds may reach as well
HeldAfterAppend(h, a, s, x) ==
  IF Aliased(a) /\ Fits(s) /\ Len(Held(a).elems) > Len(s.elems)
  THEN [h EXCEPT ![a].seen.raw.elems[Len(s.elems) + 1] = x]
  ELSE h

\* the write of a.datas in a.datas = append(a.datas, data)
Store(t) ==
  /\ ~fault
  /\ Instr(t) = "store"
  /\ aggs' = [aggs EXCEPT ![pc[t].agg].datas = GoAppend(pc[t].val, pc[t].item)]
  /\ pc' = [pc EXCEPT ![t] = IF Last(pc[t]) THEN Returned(pc[t])
                             ELSE [pc[t] EXCEPT !.i = @ + 1, !.val = NilSlice]]
  /\ ret' = RetAfter(t, pc[t])
  /\ hist' = HeldAfterAppend(HistAfter(pc[t]), pc[t].agg, pc[t].val, pc[t].item)
  /\ UNCHANGED <<ctxs, fns, fault, n, env>>

\* result[i] = 0 by the caller that holds the result of the latest Aggregate
\* on collector a (items are positive, so 0 is no item), between two calls
CallerWrite(a, i) ==
  /\ ~fault
  /\ hist[a].seen.any
  /\ \A t \in Threads : pc[t].op = "idle"
  /\ i \in DOMAIN Held(a).elems
  /\ hist' = [hist EXCEPT ![a].seen.raw.elems[i] = 0]
  /\ aggs' = IF Aliased(a) /\ i \in DOMAIN aggs[a].datas.elems
             THEN [aggs EXCEPT ![a].datas.elems[i] = 0]
             ELSE aggs
  /\ ret' = NoRet
  /\ UNCHANGED <<ctxs, fns, pc, fault, n, env>>

\* result = append(result, 0) by that caller: with room in the array the
\* element after len(result) is written, else the caller's slice moves to an
\* array of its own and is followed no further
CallerAppend(a) ==
  /\ ~fault
  /\ hist[a].seen.any
  /\ \A t \in Threads : pc[t].op = "idle"
  /\ LET len == Len(Held(a).elems)
     IN  IF Fits(Held(a))
         THEN /\ hist' = [hist EXCEPT ![a].seen.raw.elems = Append(@, 0)]
              /\ aggs' = IF Aliased(a) /\ Len(aggs[a].datas.elems) > len
                         THEN [aggs EXCEPT ![a].datas.elems[len + 1] = 0]
                         ELSE aggs
         ELSE /\ hist' = [hist EXCEPT ![a].seen = NoneSeen]
              /\ aggs' = aggs
  /\ ret' = NoRet
  /\ UNCHANGED <<ctxs, fns, pc, fault, n, env>>

WaitMutAlwaysBlocks(t) ==
  /\ ~fault
  /\ Instr(t) = "wait"
  /\ pc' = [pc EXCEPT ![t] = [pc[t] EXCEPT !.blocked = TRUE]]
  /\ ret' = NoRet
  /\ UNCHANGED <<ctxs, aggs, fns, fault, hist, n, env>>

\* a.wg.Wait(): returns at once on a zero counter, blocks otherwise
Wait(t) ==
  /\ ~fault
  /\ Instr(t) = "wait"
  /\ pc' = [pc EXCEPT ![t] = IF aggs[pc[t].agg].wg = 0 THEN After(pc[t])
                             ELSE [pc[t] EXCEPT !.blocked = TRUE]]
  /\ ret' = NoRet
  /\ UNCHANGED <<ctxs, aggs, fns, fault, hist, n, env>>

\* what hist remembers of the read of a.datas that found val
SeenAfter(a, val) ==
  IF env.track
  THEN [hist EXCEPT ![a].seen =
          [any |-> TRUE, raw |-> val, started |-> hist[a].started,
           quiet |-> hist[a].started = hist[a].returned,
           again |-> /\ @.any /\ @.quiet
                     /\ @.started = hist[a].started]]
  ELSE hist

ReadMutDrains(t) ==
  /\ ~fault
  /\ Instr(t) = "read"
  /\ LET fr == [pc[t] EXCEPT !.val = aggs[pc[t].agg].datas]
     IN  /\ pc' = [pc EXCEPT ![t] = After(fr)]
         /\ ret' = RetAfter(t, fr)
         /\ hist' = SeenAfter(fr.agg, fr.val)
         /\ aggs' = [aggs EXCEPT ![fr.agg].datas = MakeSlice]
  /\ UNCHANGED <<ctxs, fns, fault, n, env>>

\* return a.datas: the result is evaluated before the deferred Unlock runs
Read(t) ==
  /\ ~fault
  /\ Instr(t) = "read"
  /\ LET fr == [pc[t] EXCEPT !.val = aggs[pc[t].agg].datas]
     IN  /\ pc' = [pc EXCEPT ![t] = After(fr)]
         /\ ret' = RetAfter(t, fr)
         /\ hist' = SeenAfter(fr.agg, fr.val)
  /\ UNCHANGED <<ctxs, aggs, fns, fault, n, env>>

\* the loop of a derived view over allItems, the slice header that
\* agg.Aggregate() returned: it reads the first len(allItems) elements, which
\* no later append writes
Eval(t) ==
  /\ ~fault
  /\ Instr(t) = "eval"
  /\ pc' = [pc EXCEPT ![t] = After(pc[t])]
  /\ ret' = RetAfter(t, pc[t])
  /\ UNCHANGED <<ctxs, aggs, fns, fault, hist, n, env>>

\* a.wg.Add(1)
AddWaitMutShared(a) == [b \in DOMAIN aggs |-> [aggs[b] EXCEPT !.wg = @ + 1]]
AddWaitMutTwice(a) == [aggs EXCEPT ![a].wg = @ + 2]
AddWait(a) == [aggs EXCEPT ![a].wg = @ + 1]

NewFn(a) == [agg |-> a, tasks |-> 0, items |-> {}, calls |-> 0]

WaitFuncMutAnyCollector(x, keys) ==
  /\ ~fault
  /\ n.waitfunc < env.lim.waitfunc
  /\ LET a == Value(ctxs[x], buildContextKey(keys))
     IN  IF a = 0
         THEN /\ fns' = Append(fns, NewFn(0))
              /\ aggs' = aggs
         ELSE /\ fns' = Append(fns, NewFn(a))
              /\ aggs' = AddWait(a)
  /\ n' = [n EXCEPT !.waitfunc = @ + 1]
  /\ ret' = NoRet
  /\ UNCHANGED <<ctxs, pc, fault, hist, env>>

\* ctx, fn := WaitFunc(ctx, keys...)
WaitFunc(x, keys) ==
  /\ ~fault
  /\ n.waitfunc < env.lim.waitfunc
  /\ LET a == Value(ctxs[x], buildContextKey(keys))
     IN  IF a = 0 \/ aggs[a].kind \notin ConcurrentKinds
         THEN /\ fns' = Append(fns, NewFn(0))
              /\ aggs' = aggs
         ELSE /\ fns' = Append(fns, NewFn(a))
              /\ aggs' = AddWait(a)
  /\ n' = [n EXCEPT !.waitfunc = @ + 1]
  /\ ret' = NoRet
  /\ UNCHANGED <<ctxs, pc, fault, hist, env>>

DoneMutSaturates(a, t) ==
  LET w == IF aggs[a].wg > 0 THEN aggs[a].wg - 1 ELSE 0
  IN  /\ aggs' = [aggs EXCEPT ![a].wg = w]
      /\ fault' = fault
      /\ pc' = [u \in Threads |->
                 IF u = t THEN Idle
                 ELSE IF w = 0 /\ pc[u].blocked /\ pc[u].agg = a
                      THEN [After(pc[u]) EXCEPT !.blocked = FALSE]
                      ELSE pc[u]]

\* a.wg.Done() on collector a by goroutine t: the counter drops by one; below zero
\* is a panic nobody recovers; at zero every goroutine blocked in Wait goes on
Done(a, t) ==
  LET w == aggs[a].wg - 1
  IN  /\ aggs' = [aggs EXCEPT ![a].wg = w]
      /\ fault' = (w < 0)
      /\ pc' = [u \in Threads |->
                 IF u = t THEN Idle
                 ELSE IF w = 0 /\ pc[u].blocked /\ pc[u].agg = a
                      THEN [After(pc[u]) EXCEPT !.blocked = FALSE]
                      ELSE pc[u]]

\* the function WaitFunc returned: func() { agg.Done() }, or func() {}
Invoke(f, t) ==
  /\ fns' = [fns EXCEPT ![f].calls = @ + 1]
  /\ IF fns[f].agg = 0
     THEN /\ aggs' = aggs
          /\ fault' = fault
          /\ pc' = [u \in Threads |-> IF u = t THEN Idle ELSE pc[u]]
     ELSE Done(fns[f].agg, t)

\* defer fn(): runs once the task's Collect has returned
RunDeferred(t) ==
  /\ ~fault
  /\ pc[t].op = "Deferred"
  /\ Invoke(pc[t].fn, t)
  /\ ret' = NoRet
  /\ UNCHANGED <<ctxs, hist, n, env>>

RegisterMutInPlace(kind, T, x, keys, cb) ==
  /\ ~fault
  /\ n.register < env.lim.register
  /\ aggs' = Append(aggs, NewAgg(kind, T, cb))
  /\ ctxs' = Append([ctxs EXCEPT ![x] = WithValue(@, buildContextKey(keys), Len(aggs) + 1)],
                    WithValue(ctxs[x], buildContextKey(keys), Len(aggs) + 1))
  /\ hist' = Append(hist, NoHist(keys))
  /\ n' = [n EXCEPT !.register = @ + 1]
  /\ ret' = NoRet
  /\ UNCHANGED <<fns, pc, fault, env>>

\* ctx' = Register<kind>[T](ctx, keys...), with callback cb for a streaming kind
Register(kind, T, x, keys, cb) ==
  /\ ~fault
  /\ n.register < env.lim.register
  /\ aggs' = Append(aggs, NewAgg(kind, T, cb))
  /\ ctxs' = Append(ctxs, WithValue(ctxs[x], buildContextKey(keys), Len(aggs) + 1))
  /\ hist' = Append(hist, NoHist(keys))
  /\ n' = [n EXCEPT !.register = @ + 1]
  /\ ret' = NoRet
  /\ UNCHANGED <<fns, pc, fault, env>>

\* ctx' = Register<kind>WithCapacity[T](ctx, capacity, keys...)
RegisterWithCapacity(kind, T, x, keys, cb, capacity) ==
  /\ ~fault
  /\ n.register < env.lim.register
  /\ IF MakeFaults(capacity)
     THEN /\ fault' = TRUE
          /\ UNCHANGED <<ctxs, aggs, hist>>
     ELSE /\ aggs' = Append(aggs, [NewAgg(kind, T, cb) EXCEPT !.datas = MakeSliceCap(capacity)])
          /\ ctxs' = Append(ctxs, WithValue(ctxs[x], buildContextKey(keys), Len(aggs) + 1))
          /\ hist' = Append(hist, NoHist(keys))
          /\ fault' = fault
  /\ n' = [n EXCEPT !.register = @ + 1]
  /\ ret' = NoRet
  /\ UNCHANGED <<fns, pc, env>>

\* ---------------------------------------------------------- specifications
Collects(F) ==
  \E t \in Threads, x \in DOMAIN ctxs, keys \in env.keys, T \in env.types, f \in F :
    CollectCall(t, x, keys, T, f)

Aggregates ==
  \E t \in Threads, x \in DOMAIN ctxs, keys \in env.keys, T \in env.types :
    AggregateCall(t, x, keys, T)

WaitFuncs == \E x \in DOMAIN ctxs, keys \in env.keys : WaitFunc(x, keys)

\* one instruction of the method a goroutine is in
Steps(t) ==
  \/ Lock(t)
  \/ Unlock(t)
  \/ Callback(t)
  \/ Load(t)
  \/ Store(t)
  \/ Wait(t)
  \/ Read(t)

Next ==
  \/ Collects(0..MaxWaitFunc)
  \/ Aggregates
  \/ WaitFuncs
  \/ \E t \in Threads : Steps(t) \/ RunDeferred(t)

Spec == Init /\ [][Next]_vars

\* the registry: from context.Background(), collectors of any element type are
\* registered under any handle into any context created so far, and used by
\* one call at a time; no WaitFunc
InitReg ==
  /\ ctxs = << << >> >>
  /\ aggs = << >>
  /\ hist = << >>
  /\ fns = << >>
  /\ pc = [t \in Threads |-> Idle]
  /\ ret = NoRet
  /\ fault = FALSE
  /\ n = NoCalls
  /\ env = [kinds |-> {"base", "concurrentStreaming"}, keys |-> KeySeqs,
            types |-> Types, track |-> FALSE, once |-> FALSE, par |-> 1,
            lim |-> Limits(MaxCollect, MaxAggregate, 0, MaxRegister)]

Registers ==
  \E kind \in env.kinds, T \in env.types, x \in DOMAIN ctxs, keys \in env.keys :
    Register(kind, T, x, keys, "ok")

NextReg ==
  \/ Registers
  \/ Collects({0})
  \/ Aggregates
  \/ \E t \in Threads : Steps(t)

SpecReg == InitReg /\ [][NextReg]_vars

\* handles: collectors registered and used under the sequences of KeyProbes
InitKey ==
  /\ ctxs = << << >> >>
  /\ aggs = << >>
  /\ hist = << >>
  /\ fns = << >>
  /\ pc = [t \in Threads |-> Idle]
  /\ ret = NoRet
  /\ fault = FALSE
  /\ n = NoCalls
  /\ env = [kinds |-> {"concurrentStreaming"}, keys |-> KeyProbes,
            types |-> {"int"}, track |-> FALSE, once |-> FALSE, par |-> 1,
            lim |-> Limits(MaxCollect, MaxAggregate, 0, MaxRegister)]

SpecKey == InitKey /\ [][NextReg]_vars

\* the derived views: Aggregate, AggregateWithFilter, AggregateWithTransform
\* and AggregateWithFilterAndTransform on a sequential and on a concurrent
\* collector, while items are collected
InitView ==
  /\ \E kind \in {"base", "concurrentStreaming"} : InitRegistered(kind, "ok")
  /\ env = [kinds |-> {"base", "concurrentStreaming"}, keys |-> {<< >>},
            types |-> Types, track |-> FALSE, once |-> FALSE, par |-> NThreads,
            lim |-> Limits(MaxCollect, MaxAggregate, 0, 0)]

AggregatesVia ==
  \E t \in Threads, x \in DOMAIN ctxs, keys \in env.keys, T \in env.types, view \in Views :
    AggregateVia(t, x, keys, T, view)

NextView ==
  \/ Collects({0})
  \/ AggregatesVia
  \/ \E t \in Threads : Steps(t) \/ Eval(t)

SpecView == InitView /\ [][NextView]_vars

\* one call after another of Aggregate and of each derived operator, while
\* items are collected and work is announced
ReadViews ==
  {Plain, View("AggregateWithFilter", "odd", ""),
   View("AggregateWithTransform", "", "double"),
   View("AggregateWithFilterAndTransform", "odd", "double")}
InitRead ==
  /\ \E kind \in {"base", "concurrentStreaming"} : InitRegistered(kind, "ok")
  /\ env = [kinds |-> {"base", "concurrentStreaming"}, keys |-> {<< >>},
            types |-> {"int"}, track |-> TRUE, once |-> FALSE, par |-> NThreads,
            lim |-> Limits(MaxCollect, MaxAggregate + 1, MaxWaitFunc, 0)]

NextRead ==
  \/ Collects({0})
  \/ \E t \in Threads, x \in DOMAIN ctxs, keys \in env.keys, T \in env.types,
        view \in ReadViews :
       AggregateVia(t, x, keys, T, view)
  \/ WaitFuncs
  \/ \E t \in Threads : Steps(t) \/ Eval(t)

SpecRead == InitRead /\ [][NextRead]_vars

\* the derived operators on a concurrent collector while work is announced,
\* collected and completed
DerivedViews == ReadViews \ {Plain}
InitBarrier ==
  /\ \E kind \in ConcurrentKinds : InitRegistered(kind, "ok")
  /\ env = [kinds |-> ConcurrentKinds, keys |-> {<< >>}, types |-> {"int"},
            track |-> FALSE, once |-> FALSE, par |-> NThreads,
            lim |-> Limits(MaxCollect, MaxAggregate, MaxWaitFunc, 0)]

NextBarrier ==
  \/ Collects(0..MaxWaitFunc)
  \/ \E t \in Threads, x \in DOMAIN ctxs, keys \in env.keys, T \in env.types,
        view \in DerivedViews :
       AggregateVia(t, x, keys, T, view)
  \/ WaitFuncs
  \/ \E t \in Threads : Steps(t) \/ Eval(t) \/ RunDeferred(t)

SpecBarrier == InitBarrier /\ [][NextBarrier]_vars

\* WaitFunc under a handle that has a collector of any kind, or none, and the
\* calls that follow, some of them for an element type the collector does
\* not have
InitNoop ==
  /\ \E kind \in Kinds : InitRegistered(kind, "ok")
  /\ env = [kinds |-> Kinds, keys |-> KeySeqs, types |-> Types,
            track |-> FALSE, once |-> FALSE, par |-> NThreads,
            lim |-> Limits(MaxCollect, MaxAggregate, MaxWaitFunc, 0)]

SpecNoop == InitNoop /\ [][Next]_vars

\* two concurrent collectors, one under the handle of no keys and one under
\* the handle of "k" in the context derived from the first:
\* ctx2 = Register<kind2>[int](Register<kind1>[int](context.Background()), "k")
InitPair ==
  /\ \E kind1, kind2 \in ConcurrentKinds :
       aggs = <<NewAgg(kind1, "int", "ok"), NewAgg(kind2, "int", "ok")>>
  /\ ctxs = <<WithValue(<< >>, buildContextKey(<< >>), 1),
              WithValue(WithValue(<< >>, buildContextKey(<< >>), 1),
                        buildContextKey(<<"k">>), 2)>>
  /\ hist = <<NoHist(<< >>), NoHist(<<"k">>)>>
  /\ fns = << >>
  /\ pc = [t \in Threads |-> Idle]
  /\ ret = NoRet
  /\ fault = FALSE
  /\ n = NoCalls
  /\ env = [kinds |-> ConcurrentKinds, keys |-> KeySeqs, types |-> {"int"},
            track |-> FALSE, once |-> TRUE, par |-> NThreads,
            lim |-> Limits(MaxCollect, MaxAggregate, MaxWaitFunc, 0)]

SpecPair == InitPair /\ [][Next]_vars

\* collectors registered with a capacity hint, next to one registered
\* without, each used by one goroutine at a time
HintedKinds == {"concurrent", "streaming", "concurrentStreaming"}
Capacities == (0 - 1)..MaxCapacity
InitCap ==
  /\ \E kind \in HintedKinds : InitRegistered(kind, "ok")
  /\ env = [kinds |-> HintedKinds, keys |-> {<< >>}, types |-> {"int"},
            track |-> FALSE, once |-> FALSE, par |-> 1,
            lim |-> Limits(MaxCollect + 1, MaxAggregate, 0, 1)]

RegistersWithCapacity ==
  \E x \in DOMAIN ctxs, keys \in env.keys, capacity \in Capacities :
    RegisterWithCapacity(aggs[1].kind, "int", x, keys, "ok", capacity)

NextCap ==
  \/ RegistersWithCapacity
  \/ Collects({0})
  \/ Aggregates
  \/ \E t \in Threads : Steps(t)

SpecCap == InitCap /\ [][NextCap]_vars

\* a caller that keeps the sequence Aggregate returned and writes or appends
\* to it between calls, on collectors registered with and without spare
\* capacity
InitAlias ==
  /\ \E kind \in HintedKinds : InitRegistered(kind, "ok")
  /\ env = [kinds |-> HintedKinds, keys |-> {<< >>}, types |-> {"int"},
            track |-> TRUE, once |-> FALSE, par |-> 1,
            lim |-> Limits(MaxCollect, MaxAggregate + 1, 0, 1)]

CallerWrites == \E a \in DOMAIN aggs, i \in 1..MaxCollect : CallerWrite(a, i)
CallerAppends == \E a \in DOMAIN aggs : CallerAppend(a)

NextAlias ==
  \/ RegistersWithCapacity
  \/ Collects({0})
  \/ Aggregates
  \/ CallerWrites
  \/ CallerAppends
  \/ \E t \in Threads : Steps(t)

SpecAlias == InitAlias /\ [][NextAlias]_vars

\* streaming collectors, with a callback of each sort
InitStream ==
  /\ \E kind \in {"streaming", "concurrentStreaming"}, cb \in Callbacks :
       InitRegistered(kind, cb)
  /\ env = [kinds |-> {"streaming", "concurrentStreaming"}, keys |-> {<< >>},
            types |-> {"int"}, track |-> FALSE, once |-> FALSE, par |-> NThreads,
            lim |-> Limits(MaxCollect, MaxAggregate, 0, 0)]

NextStream ==
  \/ Collects({0})
  \/ Aggregates
  \/ \E t \in Threads : Steps(t)

SpecStream == InitStream /\ [][NextStream]_vars

\* a concurrent streaming collector whose callback returns, or calls back
\* into the collector
InitReenter ==
  /\ \E cb \in {"ok"} \cup ReentrantCallbacks : InitRegistered("concurrentStreaming", cb)
  /\ env = [kinds |-> {"concurrentStreaming"}, keys |-> {<< >>},
            types |-> {"int"}, track |-> FALSE, once |-> FALSE, par |-> NThreads,
            lim |-> Limits(MaxCollect, MaxAggregate, 0, 0)]

NextReenter ==
  \/ Collects({0})
  \/ Aggregates
  \/ \E t \in Threads : Steps(t) \/ Reenter(t)

SpecReenter == InitReenter /\ [][NextReenter]_vars

\* concurrent collectors whose completion functions are each deferred by at
\* most one task, under the scheduling Go gives: a goroutine that can take a
\* step is eventually run, and a goroutine waiting for a mutex that is released
\* again and again eventually gets it (sync.Mutex starvation mode)
InitLive ==
  /\ \E kind \in ConcurrentKinds : InitRegistered(kind, "ok")
  /\ env = [kinds |-> ConcurrentKinds, keys |-> {<< >>}, types |-> {"int"},
            track |-> FALSE, once |-> TRUE, par |-> NThreads,
            lim |-> Limits(MaxCollect, MaxAggregate, MaxWaitFunc, 0)]

Fairness ==
  \A t \in Threads :
    /\ WF_vars(Steps(t) \/ RunDeferred(t))
    /\ SF_vars(Lock(t))

SpecLive == InitLive /\ [][Next]_vars /\ Fairness

\* ------------------------------------------------------------------ claims
\* every completion function has been deferred by at most one task
UsedOnce == \A f \in DOMAIN fns : fns[f].tasks <= 1
\* every completion function has been invoked at most once
InvokedOnce == \A f \in DOMAIN fns : fns[f].calls <= 1
IsPrefix(s, r) == Len(s) <= Len(r) /\ \A i \in DOMAIN s : s[i] = r[i]
Returns(op) == ret.op = op /\ ret.err = NoErr

\* C1: on a concurrent collector, an Aggregate called after WaitFunc returned
\* does not return before the completion function has run, and its result
\* holds the item of the producer that deferred the completion function
\* until its Collect had returned.
C1_AggregateWaitsForCompletion ==
  (Returns("Aggregate") /\ UsedOnce) =>
    \A f \in FnsOf(ret.agg) :
      f <= ret.nfns =>
        /\ fns[f].calls >= 1
        /\ fns[f].items \subseteq Range(ret.val.elems)
C1_Witness ==
  /\ Returns("Aggregate")
  /\ UsedOnce
  /\ \E f \in FnsOf(ret.agg) : f <= ret.nfns /\ fns[f].items # {}

\* C2: every item whose Collect on a concurrent collector has returned is in
\* the result of an Aggregate exactly once, and the result holds nothing but
\* collected items, each once: after N concurrent Collect calls have
\* returned, Aggregate yields a permutation of the N items.
C2_ConcurrentCollectPermutation ==
  (Returns("Aggregate") /\ aggs[ret.agg].kind = "concurrent") =>
    /\ \A v \in hist[ret.agg].returned : Count(ret.val.elems, v) = 1
    /\ \A v \in Range(ret.val.elems) :
         v \in hist[ret.agg].started /\ Count(ret.val.elems, v) = 1
C2_Witness ==
  /\ Returns("Aggregate")
  /\ aggs[ret.agg].kind = "concurrent"
  /\ hist[ret.agg].returned = 1..MaxCollect
  /\ ret.val.elems[1] # 1

\* C4: no goroutine executing Aggregate holds the collector's mutex while it
\* has yet to wait, or is waiting, for the outstanding count to reach zero.
C4_WaitThenLock ==
  \A t \in Threads :
    (pc[t].op = "Aggregate" /\ aggs[pc[t].agg].m = t) =>
      /\ ~pc[t].blocked
      /\ \A j \in DOMAIN Body(pc[t]) : Body(pc[t])[j] = "wait" => j < pc[t].i
C4_Witness ==
  \E t \in Threads, u \in Threads :
    /\ pc[t].op = "Aggregate" /\ pc[t].blocked
    /\ pc[u].op = "Collect" /\ aggs[pc[t].agg].m = u

\* C5: one WaitFunc call on a concurrent collector, then N goroutines each
\* invoking the one returned function after their own Collect: no fault, and
\* the Aggregate that follows returns all N items.
ReadmeUsage ==
  /\ Len(fns) = 1
  /\ fns[1].agg # 0
  /\ fns[1].tasks = n.collect
C5_ReadmeUsageNoFault ==
  ReadmeUsage =>
    /\ ~fault
    /\ (Returns("Aggregate") /\ hist[ret.agg].started = hist[ret.agg].returned)
         => Range(ret.val.elems) = hist[ret.agg].started

\* C6: on a base collector used by one goroutine at a time, Aggregate returns
\* exactly the items collected, in call order (items are numbered in call order).
C6_SequentialOrder ==
  (Returns("Aggregate") /\ aggs[ret.agg].kind = "base") =>
    /\ Range(ret.val.elems) = hist[ret.agg].started
    /\ Len(ret.val.elems) = Cardinality(hist[ret.agg].started)
    /\ \A i \in DOMAIN ret.val.elems, j \in DOMAIN ret.val.elems :
         i < j => ret.val.elems[i] < ret.val.elems[j]
C6_Witness ==
  /\ Returns("Aggregate")
  /\ aggs[ret.agg].kind = "base"
  /\ Len(ret.val.elems) >= 2

\* C7: while every completion function has been invoked at most once, the
\* outstanding count of a collector is the number of WaitFunc calls on it
\* minus the number of completion-function invocations, and is not negative.
C7_OutstandingCount ==
  InvokedOnce =>
    \A a \in DOMAIN aggs :
      /\ aggs[a].wg = Cardinality(FnsOf(a))
                      - Cardinality({f \in FnsOf(a) : fns[f].calls = 1})
      /\ aggs[a].wg >= 0
C7_Witness ==
  /\ InvokedOnce
  /\ \E a \in DOMAIN aggs :
       /\ aggs[a].wg = 0
       /\ \E f \in FnsOf(a) : fns[f].calls = 1

\* C8: items are append-only: in every step, on every collector variant, the
\* items before the step are a prefix of the items after it.
C8_AppendOnly ==
  [][\A a \in DOMAIN aggs : IsPrefix(aggs[a].datas.elems, aggs'[a].datas.elems)]_vars
C8_Witness ==
  \E a \in DOMAIN aggs : Len(aggs[a].datas.elems) >= 2 /\ n.aggregate >= 1

\* C3: deadlock freedom of the concurrent collector. Under fair scheduling, if
\* every completion function obtained from WaitFunc ends up deferred by one
\* task (which invokes it once, after its Collect), every Collect call and
\* every Aggregate call eventually returns.
C3_DeadlockFreedom ==
  (<>[](\A f \in DOMAIN fns : fns[f].tasks = 1)) =>
    \A t \in Threads : [](Running(t) => <>(~Running(t)))
C3_Witness ==
  /\ Returns("Aggregate")
  /\ ret.nfns = MaxWaitFunc
  /\ \A f \in DOMAIN fns : fns[f].tasks = 1 /\ fns[f].calls = 1 /\ fns[f].items # {}
  /\ \A t \in Threads : ~Running(t)

\* the binding a lookup of handle keys finds in context x: the index of the
\* most recent one, 0 when the chain holds none
Bindings(x, keys) ==
  {i \in DOMAIN ctxs[x] : ctxs[x][i].key = buildContextKey(keys)}
Bound(x, keys) ==
  IF Bindings(x, keys) = {} THEN 0
  ELSE ctxs[x][CHOOSE i \in Bindings(x, keys) : \A j \in Bindings(x, keys) : j <= i].agg
Called == ret.op \in {"Collect", "Aggregate"}

\* C9: a Collect or Aggregate through a context whose chain holds no collector
\* registered at the computed handle fails with ErrNotFoundAggregator, and the
\* sequence Aggregate returns with it is nil.
C9_NotFound ==
  (Called /\ Bindings(ret.x, ret.keys) = {}) =>
    /\ ret.err = ErrNotFoundAggregator
    /\ ret.val = NilSlice
C9_Witness ==
  /\ ret.op = "Aggregate"
  /\ Bindings(ret.x, ret.keys) = {}
  /\ ctxs[ret.x] # << >>
  /\ ret.err = ErrNotFoundAggregator

\* C10: a Collect or Aggregate at a handle whose collector was registered for
\* another element type returns ErrInvalidType as a value: no fault, nothing
\* appended to any collector, and a nil sequence from Aggregate.
C10_TypeMismatch ==
  (Called /\ Bound(ret.x, ret.keys) # 0 /\ aggs[Bound(ret.x, ret.keys)].typ # ret.typ) =>
    /\ ret.err = ErrInvalidType
    /\ ~fault
    /\ ret.val = NilSlice
    /\ ret.op = "Collect" =>
         \A a \in DOMAIN aggs : ret.item \notin Range(aggs[a].datas.elems)
C10_Witness ==
  /\ ret.op = "Collect"
  /\ ret.err = ErrInvalidType
  /\ Bound(ret.x, ret.keys) # 0
  /\ aggs[Bound(ret.x, ret.keys)].datas.elems # << >>

\* the goroutines inside a Collect or Aggregate on collector a
Inside(a) == {t \in Threads : Running(t) /\ pc[t].agg = a}

\* C11: a callback that panics on every call never faults the program and
\* never keeps an item from being stored: every Collect on such a streaming
\* or concurrent-streaming collector returns no error with its item stored,
\* and Aggregate returns every item whose Collect has returned.
C11_CallbackFaultContained ==
  /\ ~fault
  /\ (Called /\ ret.agg # 0 /\ aggs[ret.agg].callback = "panic") =>
       /\ ret.err = NoErr
       /\ ret.op = "Collect" => Count(aggs[ret.agg].datas.elems, ret.item) = 1
       /\ ret.op = "Aggregate" => hist[ret.agg].returned \subseteq Range(ret.val.elems)
C11_Witness ==
  /\ Returns("Aggregate")
  /\ aggs[ret.agg].callback = "panic"
  /\ Len(aggs[ret.agg].cbs) = MaxCollect
  /\ Range(ret.val.elems) = 1..MaxCollect

\* C12: on a streaming or concurrent-streaming collector with a callback, the
\* callback is invoked exactly once for an item whose Collect has returned and
\* never for anything but an item being collected, with that item as argument;
\* with no Collect in progress the invocations and the stored items are the
\* same in number, one for each Collect call.
C12_CallbackOncePerCollect ==
  \A a \in DOMAIN aggs :
    aggs[a].kind \in {"streaming", "concurrentStreaming"} /\ aggs[a].callback # "nil" =>
      /\ \A v \in hist[a].returned : Count(aggs[a].cbs, v) = 1
      /\ \A v \in Range(aggs[a].cbs) : v \in hist[a].started /\ Count(aggs[a].cbs, v) = 1
      /\ {t \in Inside(a) : pc[t].op = "Collect"} = {} =>
           /\ Len(aggs[a].cbs) = Cardinality(hist[a].started)
           /\ Len(aggs[a].cbs) = Len(aggs[a].datas.elems)
C12_Witness ==
  \E a \in DOMAIN aggs :
    /\ aggs[a].kind = "concurrentStreaming"
    /\ aggs[a].callback = "ok"
    /\ Inside(a) = {}
    /\ Len(aggs[a].cbs) = MaxCollect
    /\ aggs[a].cbs[1] # 1

\* C13: a call that resolves a collector was made with the disambiguator
\* sequence the collector was registered under: collectors registered under
\* different sequences never resolve to each other.
C13_HandlesInjective ==
  (Called /\ ret.err = NoErr) => ret.keys = hist[ret.agg].keys

\* the handle of a disambiguator sequence, built from the left: the namespace
\* tag, then "_" and a disambiguator for each one in turn
RECURSIVE Handle(_)
Handle(keys) ==
  IF keys = << >> THEN "ctxAggCtxKey"
  ELSE Handle(SubSeq(keys, 1, Len(keys) - 1)) \o "_" \o keys[Len(keys)]

RegisteredAt(x, keys) ==
  {i \in DOMAIN ctxs[x] : hist[ctxs[x][i].agg].keys = keys}
Resolves(x, keys) ==
  IF RegisteredAt(x, keys) = {} THEN 0
  ELSE ctxs[x][CHOOSE i \in RegisteredAt(x, keys) :
                 \A j \in RegisteredAt(x, keys) : j <= i].agg
\* context y is x or derived from it
Derived(x, y) == IsPrefix(ctxs[x], ctxs[y])
Registering == Len(ctxs') > Len(ctxs)

C16_RegisterNonMutating ==
  /\ [][Registering =>
         \A x \in DOMAIN ctxs :
           /\ ctxs'[x] = ctxs[x]
           /\ \A keys \in env.keys, T \in env.types :
                (extractAggregator(ctxs[x], keys, T))' = extractAggregator(ctxs[x], keys, T)]_vars
  /\ [](\A y \in DOMAIN ctxs : \A i \in DOMAIN ctxs[y] :
         LET a == ctxs[y][i].agg
         IN  (\A j \in RegisteredAt(y, hist[a].keys) : j <= i) =>
               extractAggregator(ctxs[y], hist[a].keys, aggs[a].typ) = [agg |-> a, err |-> NoErr])
C16_Witness ==
  /\ Called
  /\ ret.err = ErrNotFoundAggregator
  /\ \E y \in DOMAIN ctxs :
       /\ Derived(ret.x, y)
       /\ Resolves(y, ret.keys) # 0
       /\ \E z \in DOMAIN ctxs : Derived(y, z) /\ z # y /\ Resolves(z, ret.keys) = Resolves(y, ret.keys)
\* C16 as stated: the handle resolves to the new collector through every
\* context derived from the new one.
C16_DerivedAlwaysResolves ==
  \A y \in DOMAIN ctxs : \A i \in DOMAIN ctxs[y] :
    LET a == ctxs[y][i].agg
    IN  extractAggregator(ctxs[y], hist[a].keys, aggs[a].typ).agg = a

\* C17: re-registration shadows without mutating. A Register step leaves
\* every existing collector as it was and binds a fresh empty one; a step
\* that changes a collector's items is the append of a Collect made through a
\* context in which that collector is the most recent one registered at the
\* handle, so a Collect through the derived context never changes the
\* shadowed collector, nor one through the original context the new one.
C17_ShadowingWithoutMutation ==
  /\ [][Registering =>
         /\ \A a \in DOMAIN aggs : aggs'[a] = aggs[a]
         /\ aggs'[Len(aggs')].datas = MakeSlice]_vars
  /\ [][\A a \in DOMAIN aggs :
         aggs'[a].datas # aggs[a].datas =>
           \E t \in Threads :
             /\ pc[t].op = "Collect"
             /\ Resolves(pc[t].x, pc[t].keys) = a
             /\ aggs'[a].datas.elems = Append(aggs[a].datas.elems, pc[t].item)]_vars
C17_Witness ==
  \E x \in DOMAIN ctxs, y \in DOMAIN ctxs, keys \in KeySeqs :
    /\ Derived(x, y)
    /\ Resolves(x, keys) # 0
    /\ Resolves(y, keys) # Resolves(x, keys)
    /\ aggs[Resolves(x, keys)].datas.elems # << >>
    /\ aggs[Resolves(y, keys)].datas.elems # << >>
    /\ aggs[Resolves(y, keys)].datas.elems[1] < aggs[Resolves(x, keys)].datas.elems[1]

\* C18: the coordinator is opt-in. On a concurrent collector for which
\* WaitFunc was never called the outstanding count is zero, no Aggregate is
\* blocked in its wait, and an Aggregate returns the items collected so far:
\* every item whose Collect has returned, and collected items only.
C18_WaitIsOptIn ==
  \A a \in DOMAIN aggs :
    (aggs[a].kind \in ConcurrentKinds /\ FnsOf(a) = {}) =>
      /\ aggs[a].wg = 0
      /\ \A t \in Inside(a) : ~pc[t].blocked
      /\ (Returns("Aggregate") /\ ret.agg = a) =>
           /\ hist[a].returned \subseteq Range(ret.val.elems)
           /\ Range(ret.val.elems) \subseteq hist[a].started
C18_Witness ==
  /\ Returns("Aggregate")
  /\ aggs[ret.agg].kind \in ConcurrentKinds
  /\ fns = << >>
  /\ Len(ret.val.elems) = MaxCollect

\* C19: Collect on a concurrent collector never blocks on outstanding work.
\* A goroutine in Collect is never waiting for the outstanding count, and
\* under fair scheduling every Collect call returns, whatever the count is
\* and whether or not an Aggregate is blocked waiting for it.
C19_CollectNeverWaits ==
  \A t \in Threads :
    /\ [](pc[t].op = "Collect" => ~pc[t].blocked)
    /\ [](pc[t].op = "Collect" => <>(pc[t].op # "Collect"))
C19_Witness ==
  /\ Returns("Collect")
  /\ aggs[ret.agg].wg > 0
  /\ \E u \in Threads : pc[u].op = "Aggregate" /\ pc[u].blocked

\* f applied to each element of the sequence s
MapSeq(f, s) == [i \in DOMAIN s |-> Apply(f, s[i])]

\* C20: for any predicate and map function, what AggregateWithFilterAndTransform
\* returns is the map function applied element by element to what
\* AggregateWithFilter returns on the same items (ret.raw, the items the call
\* got from the collector).
C20_FilterAndTransformIsFilterThenMap ==
  (Returns("Aggregate") /\ ret.view.op = "AggregateWithFilterAndTransform") =>
    /\ ret.val.elems =
         MapSeq(ret.view.transform,
                AggregateWithFilter(ret.raw, ret.view.filter).elems)
    /\ ~ret.val.nil
C20_Witness ==
  /\ Returns("Aggregate")
  /\ ret.view = View("AggregateWithFilterAndTransform", "odd", "double")
  /\ Len(ret.raw.elems) = MaxCollect
  /\ ret.val.elems = <<2>>

\* C21: AggregateWithFilter returns exactly the items of the Aggregate result
\* (ret.raw) that satisfy the predicate, in the order they have there: no
\* matching item is left out, no other item is included.
C21_FilterKeepsExactlyTheMatches ==
  (Returns("Aggregate") /\ ret.view.op = "AggregateWithFilter") =>
    LET Test(v) == Holds(ret.view.filter, v)
    IN  ret.val.elems = SelectSeq(ret.raw.elems, Test)
C21_Witness ==
  /\ Returns("Aggregate")
  /\ ret.view = View("AggregateWithFilter", "odd", "")
  /\ ret.raw.elems = <<2, 1>>
  /\ ret.val.elems = <<1>>

\* C22: AggregateWithTransform returns a sequence as long as the Aggregate
\* result (ret.raw) whose i-th element is the map function applied to the
\* i-th item, for every i.
C22_TransformIsElementwise ==
  (Returns("Aggregate") /\ ret.view.op = "AggregateWithTransform") =>
    /\ Len(ret.val.elems) = Len(ret.raw.elems)
    /\ \A i \in DOMAIN ret.raw.elems :
         ret.val.elems[i] = Apply(ret.view.transform, ret.raw.elems[i])
C22_Witness ==
  /\ Returns("Aggregate")
  /\ ret.view = View("AggregateWithTransform", "", "negate")
  /\ ret.raw.elems = <<1, 2>>
  /\ ret.val.elems = <<0 - 1, 0 - 2>>

\* the elements of a finite set of integers, in ascending order
InOrder(S) ==
  CHOOSE s \in [1..Cardinality(S) -> S] : \A i, j \in DOMAIN s : i < j => s[i] < s[j]
\* with one goroutine calling, the items a collector holds between calls are
\* the items collected into it so far, in call order, whatever capacity it
\* was registered with
ItemsInCallOrder ==
  \A a \in DOMAIN aggs :
    (\A t \in Threads : pc[t].op = "idle") =>
      aggs[a].datas.elems = InOrder(hist[a].started)
\* a collector registered with a capacity hint holds more items than any
\* hint in Capacities
BeyondTheHint ==
  \E a \in DOMAIN aggs : a > 1 /\ Len(aggs[a].datas.elems) > MaxCapacity

\* C25: for any capacity hint c and any number of Collect calls, a collector
\* registered with hint c holds the same items in the same order as one
\* registered without a hint, and registration and every Collect succeed
\* (no call ends the program).
C25_CapacityIsOnlyAHint ==
  /\ ~fault
  /\ ItemsInCallOrder

DerivedOps ==
  {"AggregateWithFilter", "AggregateWithTransform", "AggregateWithFilterAndTransform"}
\* the items of s that the call's predicate lets through (all of them for
\* AggregateWithTransform, which has none)
Qualifying(view, s) ==
  {i \in DOMAIN s : view.op = "AggregateWithTransform" \/ Holds(view.filter, s[i])}

\* C23: a derived operator that resolved its collector returns a non-nil
\* sequence with a nil error, empty when no item qualifies (none matches the
\* predicate, or the collector is empty); it returns a nil sequence exactly
\* when it returns an error.
C23_EmptyViewIsNotNil ==
  (ret.op = "Aggregate" /\ ret.view.op \in DerivedOps) =>
    /\ ret.val.nil <=> ret.err # NoErr
    /\ (ret.err = NoErr /\ Qualifying(ret.view, ret.raw.elems) = {}) =>
         ret.val.elems = << >>
C23_Witness ==
  /\ Returns("Aggregate")
  /\ ret.view = View("AggregateWithFilter", "none", "")
  /\ Len(ret.raw.elems) = MaxCollect
  /\ ret.val.elems = << >>
  /\ ~ret.val.nil

\* the step belongs to a call of Aggregate or of a derived operator: the
\* call is made, executes an instruction, or returns
AggregateStep ==
  \/ \E t \in Threads :
       \/ pc[t].op = "Aggregate" /\ pc'[t] # pc[t]
       \/ pc[t].op = "idle" /\ pc'[t].op = "Aggregate"
  \/ (ret.op = "Aggregate")'

\* C24: Aggregate and the derived operators are read-only.  No step of such
\* a call changes any collector's items or outstanding count; and when a
\* call reads a.datas after an earlier call did, with every Collect begun
\* before the earlier read returned by then and none begun since, it reads
\* (and so returns) the sequence the earlier call returned.
C24_ReadOnly ==
  /\ [][AggregateStep =>
          \A a \in DOMAIN aggs :
            /\ aggs'[a].datas = aggs[a].datas
            /\ aggs'[a].wg = aggs[a].wg]_vars
  /\ [][\A t \in Threads :
          (Instr(t) = "read" /\ pc'[t] # pc[t]) =>
            LET a == pc[t].agg
                seen == hist[a].seen
            IN  (seen.any /\ seen.quiet /\ seen.started = hist[a].started) =>
                  aggs[a].datas = seen.raw]_vars
C24_Witness ==
  /\ Returns("Aggregate")
  /\ hist[ret.agg].seen.again
  /\ Len(ret.raw.elems) = MaxCollect
  /\ aggs[ret.agg].wg > 0

\* C26: a producer that calls WaitFunc itself, in its own goroutine, may do
\* so after the orchestrator called Aggregate (f > ret.nfns).  Aggregate then
\* may find the count at zero and return without that producer's item:
\* when every completion function is deferred by one task at most, the only
\* producers' items a result misses are those of producers announced that
\* late (the formula), and a result that misses one is reached (the witness).
C26_MissedOnlyWhenAnnouncedLate ==
  (Returns("Aggregate") /\ aggs[ret.agg].kind \in ConcurrentKinds /\ UsedOnce) =>
    \A f \in FnsOf(ret.agg) :
      ~(fns[f].items \subseteq Range(ret.val.elems)) => f > ret.nfns
C26_Witness ==
  /\ Returns("Aggregate")
  /\ aggs[ret.agg].kind \in ConcurrentKinds
  /\ \E f \in FnsOf(ret.agg) :
       /\ UsedOnce
       /\ f > ret.nfns
       /\ fns[f].calls = 0
       /\ fns[f].items # {}
       /\ fns[f].items \cap Range(ret.val.elems) = {}

\* the slice s holds whole items of collector a, each once, and is the
\* beginning of what the collector holds now
SnapshotOf(s, a) ==
  /\ IsPrefix(s.elems, aggs[a].datas.elems)
  /\ Range(s.elems) \subseteq hist[a].started
  /\ \A v \in Range(s.elems) : Count(s.elems, v) = 1

\* C27: Aggregate and the derived operators on a concurrent collector work
\* on a consistent snapshot while Collect calls go on.  From the read of
\* a.datas to the return, the sequence the call works on is a prefix of the
\* collector's items (which only grow at the end), made of whole items; the
\* result is computed from it alone, so an item stored after the read is not
\* in the result.
C27_ConsistentSnapshot ==
  /\ \A t \in Threads :
       (/\ pc[t].op = "Aggregate"
        /\ aggs[pc[t].agg].kind \in ConcurrentKinds
        /\ Instr(t) \in {"unlock", "eval"}) => SnapshotOf(pc[t].val, pc[t].agg)
  /\ (Returns("Aggregate") /\ aggs[ret.agg].kind \in ConcurrentKinds) =>
       /\ SnapshotOf(ret.raw, ret.agg)
       /\ ret.val = ViewOf(ret.view, ret.raw)
       /\ \A i \in (Len(ret.raw.elems) + 1)..Len(aggs[ret.agg].datas.elems) :
            /\ aggs[ret.agg].datas.elems[i] \notin Range(ret.raw.elems)
            /\ ret.view.op \in {"Aggregate", "AggregateWithFilter"} =>
                 aggs[ret.agg].datas.elems[i] \notin Range(ret.val.elems)
C27_Witness ==
  /\ Returns("Aggregate")
  /\ aggs[ret.agg].kind \in ConcurrentKinds
  /\ ret.view = View("AggregateWithFilter", "all", "")
  /\ ret.val.elems = <<2>>
  /\ aggs[ret.agg].datas.elems = <<2, 1>>

\* goroutine t is in a call its own callback made on collector a, at the
\* mutex it holds itself
SelfDeadlocked(a) ==
  \E t \in Threads :
    pc[t].outer # 0 /\ pc[t].agg = a /\ Instr(t) = "lock" /\ aggs[a].m = t

\* C28: on a concurrent streaming collector the callback runs while the
\* collecting goroutine holds the mutex.  A call of Collect or Aggregate made
\* by the callback on the same collector therefore never gets the mutex; once
\* it waits for it, it waits forever, the mutex stays held, and no call on
\* that collector goes on or returns.
C28_CallbackReentryDeadlocks ==
  /\ [](\A t \in Threads :
         /\ (Instr(t) = "callback" /\ aggs[pc[t].agg].kind = "concurrentStreaming") =>
              aggs[pc[t].agg].m = t
         /\ pc[t].outer # 0 =>
              /\ aggs[pc[t].agg].m = t
              /\ Instr(t) \in {"wait", "lock"})
  /\ [][\A a \in DOMAIN aggs :
          SelfDeadlocked(a) =>
            /\ (SelfDeadlocked(a))'
            /\ aggs'[a] = aggs[a]
            /\ ret' = NoRet
            /\ \A u \in Threads :
                 (pc[u].agg = a /\ Instr(u) = "lock") => pc'[u] = pc[u]]_vars
C28_Witness ==
  \E t, u \in Threads :
    /\ t # u
    /\ SelfDeadlocked(pc[t].agg)
    /\ pc[t].outer # 0
    /\ pc[u].agg = pc[t].agg
    /\ pc[u].outer = 0
    /\ Instr(u) = "lock"

\* C29: the order of the steps of one Collect on a streaming collector is
\* callback, append, release.  While the callback for item x is still to run
\* or running, x is neither among the callback's past arguments nor in the
\* items; from then to the append the callback has been called with x (unless
\* it is nil) and x is not in the items; at the release x is in the items;
\* on the concurrent variant the mutex is held throughout.  Every Collect
\* that has returned has appended its item, whether the callback returned or
\* panicked.
C29_CallbackThenAppendThenRelease ==
  /\ \A t \in Threads :
       (pc[t].op = "Collect" /\ aggs[pc[t].agg].kind \in {"streaming", "concurrentStreaming"}) =>
         LET a == pc[t].agg
             called == pc[t].item \in Range(aggs[a].cbs)
             stored == pc[t].item \in Range(aggs[a].datas.elems)
         IN  /\ Instr(t) \in {"lock", "callback"} => ~called /\ ~stored
             /\ Instr(t) \in {"load", "store"} =>
                  (aggs[a].callback # "nil" => called) /\ ~stored
             /\ Instr(t) = "unlock" => stored
             /\ (aggs[a].kind = "concurrentStreaming" /\ Instr(t) # "lock") =>
                  aggs[a].m = t
  /\ \A a \in DOMAIN aggs :
       aggs[a].kind \in {"streaming", "concurrentStreaming"} =>
         hist[a].returned \subseteq Range(aggs[a].datas.elems)
C29_Witness ==
  /\ Returns("Collect")
  /\ aggs[ret.agg].kind = "concurrentStreaming"
  /\ aggs[ret.agg].callback = "panic"
  /\ ret.item \in Range(aggs[ret.agg].cbs)
  /\ ret.item \in Range(aggs[ret.agg].datas.elems)
  /\ aggs[ret.agg].m = 0

\* goroutine t invokes a completion function of a concurrent collector whose
\* outstanding count is zero
InvokesAtZero(t) ==
  /\ pc[t].op = "Deferred"
  /\ pc'[t] # pc[t]
  /\ fns[pc[t].fn].agg # 0
  /\ aggs[fns[pc[t].fn].agg].wg = 0

CallerStep ==
  /\ pc' = pc
  /\ \E a \in DOMAIN aggs : hist[a].seen.any /\ hist'[a].seen.raw # hist[a].seen.raw

\* C31: a collector's items change only through Collect.  A caller's write
\* or append to a sequence that Aggregate returned leaves the items of every
\* collector as they were, so a later Aggregate returns what it would have
\* returned without it.
C31_ItemsOnlyChangeThroughCollect ==
  [][CallerStep => \A a \in DOMAIN aggs : aggs'[a].datas = aggs[a].datas]_vars

\* goroutine t is in Aggregate on a concurrent collector and its a.wg.Wait()
\* has returned
PastWait(t) ==
  /\ pc[t].op = "Aggregate"
  /\ aggs[pc[t].agg].kind \in ConcurrentKinds
  /\ pc[t].i > 1

\* C32: Aggregate on a concurrent collector waits only for work announced
\* before its wait completes.  Once the wait has returned the goroutine never
\* waits for the count again: a WaitFunc call made then leaves it where it
\* is, unblocked, and under fair scheduling it returns, whatever the count;
\* so Aggregate can return with the count above zero and without the late
\* producer's item (the witness).
C32_LateAnnouncementDoesNotDelay ==
  /\ \A t \in Threads :
       /\ [](PastWait(t) => ~pc[t].blocked)
       /\ [](PastWait(t) => <>(pc[t].op # "Aggregate"))
  /\ [][n'.waitfunc # n.waitfunc =>
          \A t \in Threads : PastWait(t) => pc'[t] = pc[t]]_vars
C32_Witness ==
  /\ Returns("Aggregate")
  /\ aggs[ret.agg].wg > 0
  /\ \E f \in FnsOf(ret.agg) :
       /\ f > ret.nfns
       /\ fns[f].calls = 0
       /\ fns[f].tasks = 1
       /\ ~(fns[f].items \subseteq Range(ret.val.elems))

\* the completion functions of collector a that WaitFunc had returned when
\* the call in frame fr was made
AnnouncedBefore(fr) == {f \in FnsOf(fr.agg) : f <= fr.nfns}

\* C33: the derived operators on a concurrent collector wait as Aggregate
\* does.  When every completion function is deferred by one task at most, a
\* derived operator evaluates its predicate or map function only after every
\* completion function announced before the call has run, and the items it
\* evaluates (ret.raw), hence its result, include the items of those
\* producers: each is in the result iff it qualifies, mapped where the
\* operator maps.
C33_DerivedViewsWait ==
  UsedOnce =>
    /\ \A t \in Threads :
         (pc[t].op = "Aggregate" /\ Instr(t) = "eval") =>
           \A f \in AnnouncedBefore(pc[t]) :
             /\ fns[f].calls >= 1
             /\ fns[f].items \subseteq Range(pc[t].val.elems)
    /\ (Returns("Aggregate") /\ ret.view.op \in DerivedOps) =>
         \A f \in AnnouncedBefore(ret) :
           /\ fns[f].calls >= 1
           /\ fns[f].items \subseteq Range(ret.raw.elems)
           /\ \A v \in fns[f].items :
                (ret.view.op = "AggregateWithTransform" \/ Holds(ret.view.filter, v)) =>
                  (IF ret.view.op = "AggregateWithFilter" THEN v
                   ELSE Apply(ret.view.transform, v)) \in Range(ret.val.elems)
C33_Witness ==
  /\ Returns("Aggregate")
  /\ ret.view = View("AggregateWithFilterAndTransform", "odd", "double")
  /\ UsedOnce
  /\ \E f \in AnnouncedBefore(ret) : fns[f].items = {1}
  /\ ret.val.elems = <<2>>
  /\ Len(ret.raw.elems) = MaxCollect

\* the handle keys has no collector in context x, or one that is sequential
NothingToCoordinate(x, keys) ==
  \/ Bound(x, keys) = 0
  \/ aggs[Bound(x, keys)].kind \in {"base", "streaming"}

\* C34: WaitFunc under a handle with no collector, or with a sequential or
\* streaming one, changes no collector and no context and returns a
\* completion function bound to no collector; invoking that function changes
\* no collector, ends no program and moves no other goroutine; the count of
\* a sequential or streaming collector is always zero and no Aggregate on
\* one is ever blocked.
C34_WaitFuncNoop ==
  /\ [][\A x \in DOMAIN ctxs, keys \in env.keys :
          (WaitFunc(x, keys) /\ NothingToCoordinate(x, keys)) =>
            /\ aggs' = aggs
            /\ ctxs' = ctxs
            /\ fns'[Len(fns')].agg = 0]_vars
  /\ [][\A t \in Threads :
          (pc[t].op = "Deferred" /\ pc'[t] # pc[t] /\ fns[pc[t].fn].agg = 0) =>
            /\ aggs' = aggs
            /\ fault' = fault
            /\ \A u \in Threads \ {t} : pc'[u] = pc[u]]_vars
  /\ [](\A a \in DOMAIN aggs : aggs[a].kind \notin ConcurrentKinds => aggs[a].wg = 0)
  /\ [](\A t \in Threads :
         (pc[t].op = "Aggregate" /\ aggs[pc[t].agg].kind \notin ConcurrentKinds) =>
           ~pc[t].blocked)
C34_Witness ==
  /\ Returns("Aggregate")
  /\ aggs[ret.agg].kind \in {"base", "streaming"}
  /\ Len(ret.val.elems) = MaxCollect
  /\ \E f \in DOMAIN fns : fns[f].agg = 0 /\ fns[f].calls = 0

\* everything about the collectors other than a, and the goroutines in calls
\* on them, is the same after the step
OthersUntouched(a) ==
  /\ \A b \in DOMAIN aggs \ {a} : aggs'[b] = aggs[b]
  /\ \A u \in Threads : (Running(u) /\ pc[u].agg # a) => pc'[u] = pc[u]

\* C35: outstanding counts are per collector.  WaitFunc under the handle of
\* concurrent collector a adds one to a's count and touches no other
\* collector; a completion function of a takes one from a's count and
\* touches no other collector, nor any goroutine in a call on another; and a
\* goroutine blocked in Aggregate is blocked on the count of its own
\* collector, which is above zero.
C35_CountsArePerCollector ==
  /\ [][\A x \in DOMAIN ctxs, keys \in env.keys :
          (WaitFunc(x, keys) /\ ~NothingToCoordinate(x, keys)) =>
            /\ aggs'[Bound(x, keys)].wg = aggs[Bound(x, keys)].wg + 1
            /\ OthersUntouched(Bound(x, keys))]_vars
  /\ [][\A t \in Threads :
          (pc[t].op = "Deferred" /\ pc'[t] # pc[t] /\ fns[pc[t].fn].agg # 0) =>
            /\ aggs'[fns[pc[t].fn].agg].wg = aggs[fns[pc[t].fn].agg].wg - 1
            /\ OthersUntouched(fns[pc[t].fn].agg)]_vars
  /\ [](\A t \in Threads :
         (pc[t].op = "Aggregate" /\ pc[t].blocked) => aggs[pc[t].agg].wg > 0)
C35_Witness ==
  /\ Returns("Aggregate")
  /\ aggs[ret.agg].wg = 0
  /\ Len(ret.val.elems) > 0
  /\ \E a \in DOMAIN aggs :
       /\ a # ret.agg
       /\ aggs[a].wg > 0
       /\ ret.nfns = MaxWaitFunc

\* C36: a failed Collect changes nothing.  The step in which Collect returns
\* ErrNotFoundAggregator or ErrInvalidType leaves every collector as it was
\* (items, outstanding count, mutex, callback arguments so far) and starts
\* no item; a Collect fails with no other error.
C36_FailedCollectChangesNothing ==
  /\ [][(ret.op = "Collect" /\ ret.err # NoErr)' =>
          /\ aggs' = aggs
          /\ hist' = hist
          /\ ctxs' = ctxs
          /\ fault' = fault]_vars
  /\ []((ret.op = "Collect" /\ ret.err # NoErr) =>
          ret.err \in {ErrNotFoundAggregator, ErrInvalidType})
C36_Witness ==
  /\ ret.op = "Collect"
  /\ ret.err = ErrInvalidType
  /\ \E a \in DOMAIN aggs :
       /\ aggs[a].kind = "concurrentStreaming"
       /\ aggs[a].wg > 0
       /\ Len(aggs[a].datas.elems) = 1
       /\ aggs[a].cbs = aggs[a].datas.elems

\* in context x the handle keys has a collector of element type T, and the
\* binding made last for the handle is a collector of another element type
Shadowed(x, keys, T) ==
  /\ \E i \in Bindings(x, keys) : aggs[ctxs[x][i].agg].typ = T
  /\ aggs[Bound(x, keys)].typ # T
OlderOf(x, keys, T) ==
  {ctxs[x][i].agg : i \in {j \in Bindings(x, keys) : aggs[ctxs[x][j].agg].typ = T}}

\* C37: resolution looks at the binding made last for a handle and no
\* further.  When a context binds the handle to a collector of type U over an
\* older collector of type T, a Collect or Aggregate for T through it returns
\* ErrInvalidType (Aggregate with a nil sequence), resolves to no collector,
\* and the step leaves every collector, the older one included, unchanged.
C37_NoFallThrough ==
  /\ []((Called /\ Shadowed(ret.x, ret.keys, ret.typ)) =>
          /\ ret.err = ErrInvalidType
          /\ ret.agg = 0
          /\ ret.val = NilSlice)
  /\ [][(Called /\ Shadowed(ret.x, ret.keys, ret.typ))' => aggs' = aggs]_vars
C37_Witness ==
  /\ Called
  /\ Shadowed(ret.x, ret.keys, ret.typ)
  /\ ret.err = ErrInvalidType
  /\ \E a \in OlderOf(ret.x, ret.keys, ret.typ) : aggs[a].datas.elems # << >>

\* the goroutines in a Collect on collector a that are at, or past, its
\* callback
InCallback(a) ==
  {t \in Threads : /\ pc[t].op = "Collect" /\ pc[t].agg = a
                   /\ Instr(t) \in {"callback", "load", "store", "unlock"}}

\* C38: on a concurrent streaming collector with a callback, callbacks are
\* invoked in the order the items are stored.  The items stored are always
\* the callback's arguments so far, in order, less at most the one whose
\* Collect is between callback and append; an Aggregate returns exactly the
\* sequence of callback arguments; and at most one goroutine is at or past
\* a callback of the collector at a time.
C38_CallbackOrderIsStoredOrder ==
  \A a \in DOMAIN aggs :
    (aggs[a].kind = "concurrentStreaming" /\ aggs[a].callback # "nil") =>
      /\ IsPrefix(aggs[a].datas.elems, aggs[a].cbs)
      /\ Len(aggs[a].cbs) <= Len(aggs[a].datas.elems) + 1
      /\ Cardinality(InCallback(a)) <= 1
      /\ (Returns("Aggregate") /\ ret.agg = a) => ret.val.elems = aggs[a].cbs
C38_Witness ==
  /\ Returns("Aggregate")
  /\ aggs[ret.agg].kind = "concurrentStreaming"
  /\ aggs[ret.agg].callback = "panic"
  /\ ret.val.elems = <<2, 1>>
  /\ aggs[ret.agg].cbs = <<2, 1>>

\* C39: the mutex of a concurrent or concurrent streaming collector is held
\* only by a goroutine that is in a Collect or Aggregate on the collector.
\* When no call on the collector is in progress the mutex is
\* free, also after a Collect whose callback panicked, so a finished call
\* never blocks a later one.
C39_MutexReleasedAtReturn ==
  \A a \in DOMAIN aggs :
    aggs[a].kind \in ConcurrentKinds =>
      /\ Inside(a) = {} => aggs[a].m = 0
      /\ aggs[a].m # 0 => aggs[a].m \in Inside(a)
C39_Witness ==
  /\ Returns("Collect")
  /\ aggs[ret.agg].kind = "concurrentStreaming"
  /\ aggs[ret.agg].callback = "panic"
  /\ Inside(ret.agg) = {}
  /\ aggs[ret.agg].m = 0
  /\ Len(aggs[ret.agg].datas.elems) = MaxCollect
====
